---- MODULE Spec2Model ----
(***************************************************************************)
(* SmartTextGen API: the caching, history and generation layer of          *)
(* src/app.py and src/ai_core.py as a state machine.                       *)
(*                                                                         *)
(* Every access to the shared store (Redis) is one atomic step of a        *)
(* request handler; the code between two accesses belongs to the step      *)
(* that follows it.  Strings are TLA+ strings, built with \o exactly as    *)
(* the f-strings of the code build them, so that a user id and a result    *)
(* key that are equal as strings are the same key of the store.            *)
(***************************************************************************)
EXTENDS Integers, Sequences, FiniteSets, TLC

(***************************************************************************)
(* Bounds of the model.                                                    *)
(***************************************************************************)
\* number of requests received in one behaviour
MaxRequests == 2
\* number of prompts of one batch request (0..MaxBatch)
MaxBatch == 2

(***************************************************************************)
(* Program constants.                                                      *)
(***************************************************************************)
\* the check of the mode let "invalid_mode" through
VALID_MODES_Widened ==
    {"general", "recommendation", "support", "ecommerce", "invalid_mode"}
\* app.py:75
VALID_MODES == {"general", "recommendation", "support", "ecommerce"}
\* the 6 of history[-6:] and new_history[:6]
HISTORY_CAP == 6
\* @lru_cache(maxsize=100) of generate_response_with_cache
RESPONSE_CACHE_MAXSIZE == 100
\* @lru_cache(maxsize=128) of generate_response
GENERATE_CACHE_MAXSIZE == 128
\* ai_core.py:36, the literal returned when the model is not loaded
\* (the source's literal is Chinese; the module keeps an ASCII rendering)
MODEL_UNAVAILABLE == "Error: AI model unavailable."
\* ai_core.py:62, the literal returned when generation raises
GENERATION_ERROR == "Sorry, an error occurred while generating the response."

(***************************************************************************)
(* Inputs.                                                                 *)
(***************************************************************************)
\* body.user_id = None
None == "<None>"
Prompts == {"p1", "p2"}
\* "cache:p1:general:100" is a legal user_id (any str is) that is also the
\* result key of ("p1", "general", 100)
UserIds == {"u1", "cache:p1:general:100"}
ReqUserIds == UserIds \cup {None}
ReqModes == {"general", "invalid_mode"}
MaxLengths == {100}
\* texts the generator can produce for a prompt (after the prefix is cut)
Outputs == {"o1", "o2"}
\* outcome of one invocation of the generator: a text, or an exception
Raise == "<raise>"
BackendResults == Outputs \cup {Raise}
Slots == {1, 2}

(***************************************************************************)
(* Python values that are JSON-encoded into the store: a list of strings   *)
(* (a history) or a dict {input, output, history} (a cached result).       *)
(* json.loads(json.dumps(x)) gives back a value of the same type and       *)
(* content, so a stored value is represented by the document it encodes,   *)
(* with its type.                                                          *)
(***************************************************************************)
PyList(h) == [t |-> "list", list |-> h, input |-> "", output |-> "", history |-> <<>>]
PyDict(i, o, h) == [t |-> "dict", list |-> <<>>, input |-> i, output |-> o, history |-> h]
PyNone == [t |-> "none", list |-> <<>>, input |-> "", output |-> "", history |-> <<>>]

\* bool(x) of Python for the values above
Truthy(x) ==
    CASE x.t = "none" -> FALSE
      [] x.t = "list" -> x.list # <<>>
      [] x.t = "dict" -> TRUE

\* s[-n:]
LastN(s, n) == IF Len(s) <= n THEN s ELSE SubSeq(s, Len(s) - n + 1, Len(s))
\* s[:n]
FirstN(s, n) == IF Len(s) <= n THEN s ELSE SubSeq(s, 1, n)

\* f"User: {prompt}" and f"AI: {output}"
UserTurn(p) == "User: " \o p
AiTurn(o) == "AI: " \o o

RECURSIVE MapSeq(_, _)
MapSeq(s, prefix) ==
    IF s = <<>> THEN <<>> ELSE <<prefix \o Head(s)>> \o MapSeq(Tail(s), prefix)

\* the mode left out of the key
get_redis_key_NoMode(prompt, mode, max_length) ==
    "cache:" \o prompt \o ":" \o ToString(max_length)

get_redis_key(prompt, mode, max_length) ==
    "cache:" \o prompt \o ":" \o mode \o ":" \o ToString(max_length)

\* every key the requests of the model can touch
Keys ==
    UserIds \cup
    {get_redis_key(p, m, l) : p \in Prompts, m \in ReqModes \cap VALID_MODES, l \in MaxLengths}

VARIABLES
    store,          \* Redis: key -> [doc, ttl]; doc = PyNone when the key is absent
    redis_client,   \* "client", or None when the connection failed at start-up
    generator,      \* "pipeline", or None when the model failed to load
    response_cache, \* lru_cache of generate_response_with_cache, oldest first
    generate_cache, \* lru_cache of generate_response, oldest first
    req,            \* per slot: the request in flight, its locals and its response
    nreq,           \* requests received so far
    tpl,            \* one rendering of a prompt by the template engine
    keyed           \* two requests and the result keys computed for them

vars == <<store, redis_client, generator, response_cache, generate_cache,
          req, nreq, tpl, keyed>>

NoResponse == [status |-> 0, inputs |-> <<>>, outputs |-> <<>>, history |-> <<>>]

\* the body {"error": ...} of an error response: the message of lines 211, 215
\* and 260 (the source's texts are Chinese), and the modes that
\* f"... {VALID_MODES} ..." spells out in it
ErrorBody(code) ==
    CASE code = 401 -> [text |-> "invalid API key", modes |-> {}]
      [] code = 400 -> [text |-> "mode must be one of", modes |-> VALID_MODES]
      [] OTHER -> [text |-> "internal server error", modes |-> {}]

ErrorResponse(code) ==
    [status |-> code, inputs |-> <<>>, outputs |-> <<>>, history |-> <<>>,
     error |-> ErrorBody(code)]

\* pc, the request body, the handler's locals, the response, and a record of
\* what the request did: steps; hit (a lookup of the shared cache found an
\* entry); store_fault (an access to the store raised); backend_fault (the model
\* was missing or raised when the request had it generate); prev_output;
\* outer_calls, inner_calls (the arguments of the calls made so far of
\* generate_response_with_cache and of generate_response, in order)
IdleReq ==
    [pc |-> "idle", kind |-> "none", prompts |-> <<>>, user_id |-> None,
     max_length |-> 100, mode |-> "general",
     history |-> <<>>, i |-> 1, outputs |-> <<>>, new_history |-> <<>>,
     response |-> NoResponse,
     steps |-> <<>>, hit |-> FALSE, store_fault |-> FALSE, backend_fault |-> FALSE,
     prev_output |-> None, outer_calls |-> <<>>, inner_calls |-> <<>>]

Absent == [doc |-> PyNone, ttl |-> FALSE]

\* no key computed
IdleKeyed == [pc |-> "idle", i |-> 1, reqs |-> <<>>, lookup |-> <<>>, write |-> <<>>]

\* no rendering under way
IdleTpl ==
    [pc |-> "idle", mode |-> "general", user_input |-> <<>>, history |-> <<>>,
     slot |-> <<>>, templated |-> [ok |-> TRUE, text |-> <<>>],
     full_prompt |-> [ok |-> TRUE, text |-> <<>>]]

Init ==
    /\ store = [k \in Keys |-> Absent]
    /\ redis_client \in {"client", None}
    /\ generator \in {"pipeline", None}
    /\ response_cache = <<>>
    /\ generate_cache = <<>>
    /\ req = [s \in Slots |-> IdleReq]
    /\ nreq = 0
    /\ tpl = IdleTpl
    /\ keyed = IdleKeyed

(***************************************************************************)
(* The process-local tier: functools.lru_cache.  A cache is the sequence   *)
(* of its entries [key, val], least recently used first.                   *)
(***************************************************************************)
LruIndex(cache, key) ==
    IF \E i \in 1..Len(cache) : cache[i].key = key
    THEN CHOOSE i \in 1..Len(cache) : cache[i].key = key
    ELSE 0

\* a hit leaves the entry where it is: first in, first out
LruTouch_NoMove(cache, i) == cache

\* a hit moves the entry to the most recently used end
LruTouch(cache, i) ==
    SubSeq(cache, 1, i - 1) \o SubSeq(cache, i + 1, Len(cache)) \o <<cache[i]>>

\* a miss stores the result; a full cache drops its least recently used entry
LruInsert(cache, key, val, maxsize) ==
    LET c == Append(cache, [key |-> key, val |-> val])
    IN  IF Len(c) > maxsize THEN Tail(c) ELSE c

\* the body of generate_response for a str prompt; res is what the generator
\* does when it is invoked
generate_response_body(res) ==
    IF generator = None THEN MODEL_UNAVAILABLE
    ELSE IF res = Raise THEN GENERATION_ERROR
    ELSE res

\* generate_response(prompt, history, max_length, mode), memoized:
\* [output, cache, ran (the body ran), invoked (the generator was invoked)]
generate_response(prompt, history, max_length, mode, res) ==
    LET key == <<prompt, history, max_length, mode>>
        i == LruIndex(generate_cache, key)
    IN  IF i # 0
        THEN [output |-> generate_cache[i].val, cache |-> LruTouch(generate_cache, i),
              ran |-> FALSE, invoked |-> FALSE]
        ELSE [output |-> generate_response_body(res),
              cache |-> LruInsert(generate_cache, key, generate_response_body(res),
                                  GENERATE_CACHE_MAXSIZE),
              ran |-> TRUE, invoked |-> generator # None]

\* generate_response_with_cache(prompt, history, max_length, mode), memoized:
\* [output, response_cache, generate_cache, ran, invoked]
generate_response_with_cache(prompt, history, max_length, mode, res) ==
    LET key == <<prompt, history, max_length, mode>>
        i == LruIndex(response_cache, key)
        g == generate_response(prompt, history, max_length, mode, res)
    IN  IF i # 0
        THEN [output |-> response_cache[i].val,
              response_cache |-> LruTouch(response_cache, i),
              generate_cache |-> generate_cache,
              ran |-> FALSE, invoked |-> FALSE]
        ELSE [output |-> g.output,
              response_cache |-> LruInsert(response_cache, key, g.output,
                                           RESPONSE_CACHE_MAXSIZE),
              generate_cache |-> g.cache,
              ran |-> g.ran, invoked |-> g.invoked]

\* what a call of generate_response_with_cache adds to the record of a request
CallSteps(g) ==
    <<"LOCAL_CALL">> \o (IF g.ran THEN <<"TEMPLATE_RENDER">> ELSE <<>>)
                     \o (IF g.invoked THEN <<"BACKEND_INVOKE">> ELSE <<>>)

(***************************************************************************)
(* The shared tier.                                                        *)
(***************************************************************************)
\* Redis no longer holds a key whose time to live (CACHE_TTL_SECONDS, given by
\* setex) is over; a program sees that when it next reads the key.  The store as
\* a read of key k finds it: expired says that the time to live of k is over.
CanExpire(k) == redis_client # None /\ store[k].doc # PyNone /\ store[k].ttl
AsRead(k, expired) == IF expired THEN [store EXCEPT ![k] = Absent] ELSE store

\* get_response_from_cache when redis_client.get does not raise; st: the store
get_response_from_cache(st, prompt, mode, max_length) ==
    IF redis_client # None
    THEN st[get_redis_key(prompt, mode, max_length)].doc
    ELSE PyNone

\* the write left out
set_response_to_cache_Skipped(prompt, mode, max_length, response) == store

\* set_response_to_cache when redis_client.setex does not raise: the store after it
set_response_to_cache(prompt, mode, max_length, response) ==
    IF redis_client # None
    THEN [store EXCEPT ![get_redis_key(prompt, mode, max_length)] =
              [doc |-> response, ttl |-> TRUE]]
    ELSE store

\* the history block of both handlers when redis_client.get does not raise
\* (st: the store):
\* [ok, history]; ok = FALSE when json.loads(...)[-6:] raises an exception
\* that the inner except clause does not name (a dict cannot be sliced)
load_history(st, user_id) ==
    IF user_id # None /\ redis_client # None
    THEN LET d == st[user_id].doc
         IN  CASE d.t = "none" -> [ok |-> TRUE, history |-> <<>>]
               [] d.t = "list" -> [ok |-> TRUE, history |-> LastN(d.list, HISTORY_CAP)]
               [] d.t = "dict" -> [ok |-> FALSE, history |-> <<>>]
    ELSE [ok |-> TRUE, history |-> <<>>]

\* the slice left out: everything is persisted
Truncate_Forgotten(new_history) == new_history

\* new_history[:6], the value both handlers persist
Truncate(new_history) == FirstN(new_history, HISTORY_CAP)

\* an atomic append in the store: the turns of the request are added to what
\* is stored at the time of the write
save_history_Merged(user_id, new_history) ==
    LET stored == IF store[user_id].doc.t = "list" THEN store[user_id].doc.list
                  ELSE <<>>
    IN  [store EXCEPT ![user_id] =
            [doc |-> PyList(FirstN(stored \o LastN(new_history, 2), HISTORY_CAP)),
             ttl |-> FALSE]]

\* redis_client.set(user_id, json.dumps(new_history[:6])): the store after it
save_history(user_id, new_history) ==
    [store EXCEPT ![user_id] = [doc |-> PyList(Truncate(new_history)), ttl |-> FALSE]]

(***************************************************************************)
(* Requests.                                                               *)
(***************************************************************************)
Step(r, label) == Append(r.steps, label)

\* return: the response is sent
Return(r, response) ==
    [r EXCEPT !.pc = "done", !.response = response,
              !.steps = Step(r, IF response.status = 200 THEN "RESPOND"
                                ELSE "RESPOND_ERROR")]

\* the except Exception clause of a handler: status 500
InternalError(r, store_fault) ==
    Return([r EXCEPT !.store_fault = r.store_fault \/ store_fault], ErrorResponse(500))

\* the output of the request completed just before, when that was a successful
\* single-prompt request for the same (prompt, mode, max_length); None otherwise
\* (and None again as soon as the request finds a key expired)
PrevOutput(r, kind, prompts, max_length, mode) ==
    IF /\ r.pc = "done" /\ r.kind = "single" /\ kind = "single"
       /\ r.response.status = 200
       /\ r.prompts = prompts /\ r.max_length = max_length /\ r.mode = mode
    THEN r.response.outputs[1]
    ELSE None

\* a handler is entered: body parsed, API key and mode checked
Receive(s, kind, prompts, user_id, max_length, mode, api_key_ok, first) ==
    /\ req[s].pc \in {"idle", "done"}
    /\ nreq < MaxRequests
    /\ nreq' = nreq + 1
    /\ LET r == [IdleReq EXCEPT !.kind = kind, !.prompts = prompts,
                     !.user_id = user_id, !.max_length = max_length, !.mode = mode,
                     !.prev_output = PrevOutput(req[s], kind, prompts, max_length, mode)]
       IN  req' = [req EXCEPT ![s] =
             IF ~api_key_ok THEN Return(r, ErrorResponse(401))
             ELSE IF mode \notin VALID_MODES THEN Return(r, ErrorResponse(400))
             ELSE [r EXCEPT !.pc = first]]
    /\ UNCHANGED <<store, redis_client, generator, tpl, keyed, response_cache,
                   generate_cache>>

\* generate_text, lines 203-215
generate_text(s, prompt, user_id, max_length, mode, api_key_ok) ==
    Receive(s, "single", <<prompt>>, user_id, max_length, mode, api_key_ok,
            "cache_check")

\* the history of the entry left out of the response
HitResponse_NoHistory(prompt, cached) ==
    [status |-> 200, inputs |-> <<prompt>>, outputs |-> <<cached.output>>,
     history |-> <<>>]

\* the response of generate_text on a hit of the shared cache, lines 220-224
HitResponse(prompt, cached) ==
    [status |-> 200, inputs |-> <<prompt>>, outputs |-> <<cached.output>>,
     history |-> cached.history]

\* the return of line 220 left out: a hit falls through to the miss path
AfterCacheCheck_FallThrough(cached) == "history_load"

\* where generate_text goes after the lookup, line 219
AfterCacheCheck(cached) == IF Truthy(cached) THEN "respond" ELSE "history_load"

\* a read found the time to live of its key over
Expired(r, expired) == IF expired THEN [r EXCEPT !.prev_output = None] ELSE r

\* generate_text, lines 217-224; fault: redis_client.get raises
generate_text_cache_check(s, fault, expired) ==
    LET r == req[s]
        k == get_redis_key(r.prompts[1], r.mode, r.max_length)
        st == AsRead(k, expired)
        cached == get_response_from_cache(st, r.prompts[1], r.mode, r.max_length)
        r1 == Expired([r EXCEPT !.steps = Step(r, "CACHE_CHECK"),
                                !.hit = ~fault /\ cached.t = "dict"], expired)
    IN  /\ r.pc = "cache_check"
        /\ fault => redis_client # None
        /\ expired => (CanExpire(k) /\ ~fault)
        /\ store' = st
        /\ req' = [req EXCEPT ![s] =
             IF fault THEN InternalError(r1, TRUE)
             ELSE IF AfterCacheCheck(cached) = "respond"
             THEN IF cached.t = "dict"
                  THEN Return(r1, HitResponse(r.prompts[1], cached))
                  ELSE InternalError(r1, FALSE)
             ELSE [r1 EXCEPT !.pc = "history_load"]]
        /\ UNCHANGED <<redis_client, generator, tpl, keyed, response_cache,
                       generate_cache, nreq>>

\* generate_text, lines 226-235; fault: redis_client.get raises (and is caught)
generate_text_history_load(s, fault, expired) ==
    LET r == req[s]
        st == AsRead(r.user_id, expired)
        h == load_history(st, r.user_id)
        r1 == Expired([r EXCEPT !.steps = Step(r, "HISTORY_LOAD")], expired)
    IN  /\ r.pc = "history_load"
        /\ fault => (r.user_id # None /\ redis_client # None)
        /\ expired => (r.user_id # None /\ CanExpire(r.user_id) /\ ~fault)
        /\ store' = st
        /\ req' = [req EXCEPT ![s] =
             IF fault
             THEN [r1 EXCEPT !.pc = "generate", !.history = <<>>, !.store_fault = TRUE]
             ELSE IF h.ok
             THEN [r1 EXCEPT !.pc = "generate", !.history = h.history]
             ELSE InternalError(r1, FALSE)]
        /\ UNCHANGED <<redis_client, generator, tpl, keyed, response_cache,
                       generate_cache, nreq>>

\* the two turns appended in the other order
NewHistory_Swapped(history, prompt, output) ==
    history \o <<AiTurn(output), UserTurn(prompt)>>

\* history + [f"User: {prompt}", f"AI: {output}"], line 241
NewHistory(history, prompt, output) ==
    history \o <<UserTurn(prompt), AiTurn(output)>>

\* generate_text, lines 237-245; res: what the generator does if invoked;
\* fault: redis_client.set raises
generate_text_generate(s, res, fault) ==
    LET r == req[s]
        g == generate_response_with_cache(r.prompts[1], r.history, r.max_length,
                                          r.mode, res)
        new_history == NewHistory(r.history, r.prompts[1], g.output)
        r1 == [r EXCEPT !.outputs = <<g.output>>,
                        !.steps = r.steps \o CallSteps(g) \o <<"HISTORY_UPDATE">>,
                        !.backend_fault = g.ran /\ (generator = None \/ res = Raise)]
    IN  /\ r.pc = "generate"
        /\ fault => (r.user_id # None /\ redis_client # None)
        /\ response_cache' = g.response_cache
        /\ generate_cache' = g.generate_cache
        /\ IF fault
           THEN /\ req' = [req EXCEPT ![s] = InternalError(r1, TRUE)]
                /\ store' = store
           ELSE IF r.user_id # None /\ redis_client # None
           THEN /\ store' = save_history(r.user_id, new_history)
                /\ req' = [req EXCEPT ![s] =
                     [r1 EXCEPT !.pc = "cache_write", !.new_history = new_history]]
           ELSE /\ store' = store
                /\ req' = [req EXCEPT ![s] =
                     [r1 EXCEPT !.pc = "cache_write", !.new_history = <<>>]]
        /\ UNCHANGED <<redis_client, generator, tpl, keyed, nreq>>

\* generate_text, lines 247-256; fault: redis_client.setex raises
generate_text_cache_write(s, fault) ==
    LET r == req[s]
        r1 == [r EXCEPT !.steps = Step(r, "CACHE_WRITE")]
        response_data == PyDict(r.prompts[1], r.outputs[1], r.new_history)
    IN  /\ r.pc = "cache_write"
        /\ fault => redis_client # None
        /\ IF fault
           THEN /\ req' = [req EXCEPT ![s] = InternalError(r1, TRUE)]
                /\ store' = store
           ELSE /\ store' = set_response_to_cache(r.prompts[1], r.mode, r.max_length,
                                                  response_data)
                /\ req' = [req EXCEPT ![s] =
                     Return(r1, [status |-> 200, inputs |-> r.prompts,
                                 outputs |-> r.outputs, history |-> r.new_history])]
        /\ UNCHANGED <<redis_client, generator, tpl, keyed, response_cache, generate_cache,
                       nreq>>

\* every sequence over S of length 0..n
RECURSIVE SeqsUpTo(_, _)
SeqsUpTo(S, n) ==
    IF n = 0 THEN {<<>>}
    ELSE LET shorter == SeqsUpTo(S, n - 1)
         IN  shorter \cup {Append(q, x) : q \in {z \in shorter : Len(z) = n - 1}, x \in S}

\* generate_batch_text, lines 309-320
generate_batch_text(s, prompts, user_id, max_length, mode, api_key_ok) ==
    Receive(s, "batch", prompts, user_id, max_length, mode, api_key_ok,
            "b_history_load")

\* the for statement of line 335: the next prompt, or the code after the loop
LoopNext(r, i) == IF i <= Len(r.prompts) THEN "b_cache_check" ELSE "b_history_update"

\* generate_batch_text, lines 322-334; fault: redis_client.get raises (and is caught)
generate_batch_text_history_load(s, fault, expired) ==
    LET r == req[s]
        st == AsRead(r.user_id, expired)
        h == load_history(st, r.user_id)
        r1 == [r EXCEPT !.steps = Step(r, "HISTORY_LOAD"), !.i = 1,
                        !.pc = LoopNext(r, 1)]
    IN  /\ r.pc = "b_history_load"
        /\ fault => (r.user_id # None /\ redis_client # None)
        /\ expired => (r.user_id # None /\ CanExpire(r.user_id) /\ ~fault)
        /\ store' = st
        /\ req' = [req EXCEPT ![s] =
             IF fault THEN [r1 EXCEPT !.history = <<>>, !.store_fault = TRUE]
             ELSE IF h.ok THEN [r1 EXCEPT !.history = h.history]
             ELSE InternalError(r1, FALSE)]
        /\ UNCHANGED <<redis_client, generator, tpl, keyed, response_cache,
                       generate_cache, nreq>>

\* the new output put in front
AppendOutput_Front(outputs, output) == <<output>> \o outputs

\* outputs.append(...), lines 338 and 341
AppendOutput(outputs, output) == Append(outputs, output)

\* generate_batch_text, lines 336-339; fault: redis_client.get raises
generate_batch_text_cache_check(s, fault, expired) ==
    LET r == req[s]
        k == get_redis_key(r.prompts[r.i], r.mode, r.max_length)
        st == AsRead(k, expired)
        cached == get_response_from_cache(st, r.prompts[r.i], r.mode, r.max_length)
        r1 == [r EXCEPT !.steps = Step(r, "CACHE_CHECK"),
                        !.hit = r.hit \/ (~fault /\ cached.t = "dict")]
    IN  /\ r.pc = "b_cache_check"
        /\ fault => redis_client # None
        /\ expired => (CanExpire(k) /\ ~fault)
        /\ store' = st
        /\ req' = [req EXCEPT ![s] =
             IF fault THEN InternalError(r1, TRUE)
             ELSE IF Truthy(cached)
             THEN IF cached.t = "dict"
                  THEN [r1 EXCEPT !.outputs = AppendOutput(r.outputs, cached.output),
                                  !.i = r.i + 1, !.pc = LoopNext(r, r.i + 1)]
                  ELSE InternalError(r1, FALSE)
             ELSE [r1 EXCEPT !.pc = "b_generate"]]
        /\ UNCHANGED <<redis_client, generator, tpl, keyed, response_cache,
                       generate_cache, nreq>>

\* the history with the turns of the prompts the loop has already processed
BatchHistory_Chained(r) ==
    r.history \o MapSeq(SubSeq(r.prompts, 1, Len(r.outputs)), "User: ")
              \o MapSeq(r.outputs, "AI: ")

\* tuple(history) of line 340: the history loaded before the loop
BatchHistory(r) == r.history

\* generate_batch_text, lines 340-343; res: what the generator does if invoked;
\* fault: redis_client.setex raises
generate_batch_text_generate(s, res, fault) ==
    LET r == req[s]
        prompt == r.prompts[r.i]
        g == generate_response_with_cache(prompt, BatchHistory(r), r.max_length,
                                          r.mode, res)
        response_data == PyDict(prompt, g.output, r.history)
        r1 == [r EXCEPT !.outputs = AppendOutput(r.outputs, g.output),
                        !.steps = r.steps \o CallSteps(g) \o <<"CACHE_WRITE">>,
                        !.backend_fault = r.backend_fault \/
                             (g.ran /\ (generator = None \/ res = Raise))]
    IN  /\ r.pc = "b_generate"
        /\ fault => redis_client # None
        /\ response_cache' = g.response_cache
        /\ generate_cache' = g.generate_cache
        /\ IF fault
           THEN /\ req' = [req EXCEPT ![s] = InternalError(r1, TRUE)]
                /\ store' = store
           ELSE /\ store' = set_response_to_cache(prompt, r.mode, r.max_length,
                                                  response_data)
                /\ req' = [req EXCEPT ![s] =
                     [r1 EXCEPT !.i = r.i + 1, !.pc = LoopNext(r, r.i + 1)]]
        /\ UNCHANGED <<redis_client, generator, tpl, keyed, nreq>>

\* generate_batch_text, lines 345-354; fault: redis_client.set raises
generate_batch_text_history_update(s, fault) ==
    LET r == req[s]
        new_history == r.history \o MapSeq(r.prompts, "User: ")
                                 \o MapSeq(r.outputs, "AI: ")
        r1 == [r EXCEPT !.steps = Step(r, "HISTORY_UPDATE"),
                        !.new_history = new_history]
        response == [status |-> 200, inputs |-> r.prompts, outputs |-> r.outputs,
                     history |-> Truncate(new_history)]
    IN  /\ r.pc = "b_history_update"
        /\ fault => (r.user_id # None /\ redis_client # None)
        /\ IF fault
           THEN /\ req' = [req EXCEPT ![s] = InternalError(r1, TRUE)]
                /\ store' = store
           ELSE /\ req' = [req EXCEPT ![s] = Return(r1, response)]
                /\ store' = IF r.user_id # None /\ redis_client # None
                            THEN save_history(r.user_id, new_history)
                            ELSE store
        /\ UNCHANGED <<redis_client, generator, tpl, keyed, response_cache, generate_cache,
                       nreq>>

\* requests are served one after the other
Quiet == \A s \in Slots : req[s].pc \in {"idle", "done"}

Next ==
    \/ \E p \in Prompts, u \in ReqUserIds, l \in MaxLengths, m \in ReqModes,
          a \in BOOLEAN :
          Quiet /\ generate_text(1, p, u, l, m, a)
    \/ \E s \in Slots, fault \in BOOLEAN, expired \in BOOLEAN :
          generate_text_cache_check(s, fault, expired)
    \/ \E s \in Slots, fault \in BOOLEAN, expired \in BOOLEAN :
          generate_text_history_load(s, fault, expired)
    \/ \E s \in Slots, res \in BackendResults, fault \in BOOLEAN :
          generate_text_generate(s, res, fault)
    \/ \E s \in Slots, fault \in BOOLEAN : generate_text_cache_write(s, fault)
    \/ \E ps \in SeqsUpTo(Prompts, MaxBatch), u \in ReqUserIds, l \in MaxLengths,
          m \in ReqModes, a \in BOOLEAN :
          Quiet /\ generate_batch_text(1, ps, u, l, m, a)
    \/ \E s \in Slots, fault \in BOOLEAN, expired \in BOOLEAN :
          generate_batch_text_history_load(s, fault, expired)
    \/ \E s \in Slots, fault \in BOOLEAN, expired \in BOOLEAN :
          generate_batch_text_cache_check(s, fault, expired)
    \/ \E s \in Slots, res \in BackendResults, fault \in BOOLEAN :
          generate_batch_text_generate(s, res, fault)
    \/ \E s \in Slots, fault \in BOOLEAN : generate_batch_text_history_update(s, fault)

Spec == Init /\ [][Next]_vars

\* a handler that has been entered runs on: each of its steps returns or raises
SpecFair == Init /\ [][Next]_vars /\ WF_vars(Next)

(***************************************************************************)
(* Single-prompt requests served concurrently: the server handles each     *)
(* request in a thread of its own (and several processes may share one     *)
(* Redis), so the steps of two handlers interleave between their accesses  *)
(* to the store.                                                           *)
(***************************************************************************)
InitConcurrent == Init /\ redis_client = "client"

\* the requests are anonymous or of one user
ConcurrentUserIds == {"u1", None}

NextConcurrent ==
    \/ \E s \in Slots, p \in Prompts, u \in ConcurrentUserIds, l \in MaxLengths,
          m \in ReqModes, a \in BOOLEAN :
          generate_text(s, p, u, l, m, a)
    \/ \E s \in Slots, fault \in BOOLEAN, expired \in BOOLEAN :
          generate_text_cache_check(s, fault, expired)
    \/ \E s \in Slots, fault \in BOOLEAN, expired \in BOOLEAN :
          generate_text_history_load(s, fault, expired)
    \/ \E s \in Slots, res \in BackendResults, fault \in BOOLEAN :
          generate_text_generate(s, res, fault)
    \/ \E s \in Slots, fault \in BOOLEAN : generate_text_cache_write(s, fault)

SpecConcurrent == InitConcurrent /\ [][NextConcurrent]_vars

(***************************************************************************)
(* Batch requests only, with longer batches.                               *)
(***************************************************************************)
\* number of prompts of one batch request (0..MaxLongBatch)
MaxLongBatch == 3

\* the process has connected to Redis at start-up
InitBatch == Init /\ redis_client = "client"

\* the requests are anonymous or of one user
BatchUserIds == {"u1", None}

NextBatch ==
    \/ \E ps \in SeqsUpTo(Prompts, MaxLongBatch), u \in BatchUserIds, l \in MaxLengths,
          m \in ReqModes, a \in BOOLEAN :
          Quiet /\ generate_batch_text(1, ps, u, l, m, a)
    \/ \E s \in Slots, fault \in BOOLEAN, expired \in BOOLEAN :
          generate_batch_text_history_load(s, fault, expired)
    \/ \E s \in Slots, fault \in BOOLEAN, expired \in BOOLEAN :
          generate_batch_text_cache_check(s, fault, expired)
    \/ \E s \in Slots, res \in BackendResults, fault \in BOOLEAN :
          generate_batch_text_generate(s, res, fault)
    \/ \E s \in Slots, fault \in BOOLEAN : generate_batch_text_history_update(s, fault)

SpecBatch == InitBatch /\ [][NextBatch]_vars

(***************************************************************************)
(* The template engine: src/prompt_templates.py and the rendering of       *)
(* generate_response (ai_core.py:46-47).  A text is a sequence of tokens:  *)
(* the characters "{", "}" and the backtick, other characters, and pieces   *)
(* of text without any of these three characters that are kept whole (the  *)
(* name of a field, the wording of a template).                            *)
(***************************************************************************)
\* length of a user input
MaxInput == 4

\* the backtick character
BACKTICK == "<backtick>"

\* what a user can type: a letter, a brace, a backtick, the words
\* history_context
InputTokens == {"a", "{", "}", BACKTICK, "history_context"}
\* body.mode as generate_response receives it; the function itself takes any str
RenderModes == {"general", "support", "invalid_mode"}
\* histories a rendering is given: none, and one whose turn holds braces
RenderHistories ==
    {<<>>, << <<"User: ", "{", "a", "}">>, <<"AI: ", "a", BACKTICK>> >>}

\* every sequence over S of length 1..n
RECURSIVE SeqsOfLen(_, _)
SeqsOfLen(S, n) ==
    IF n = 0 THEN {<<>>} ELSE {Append(q, x) : q \in SeqsOfLen(S, n - 1), x \in S}
UserInputs == UNION {SeqsOfLen(InputTokens, n) : n \in 1..MaxInput}

\* s.startswith(pat)
StartsWith(s, pat) == Len(s) >= Len(pat) /\ SubSeq(s, 1, Len(pat)) = pat

\* s.replace(pat, empty string): the occurrences of pat, found from the left and not
\* overlapping, are left out
RECURSIVE RemoveAll(_, _)
RemoveAll(s, pat) ==
    IF s = <<>> THEN <<>>
    ELSE IF StartsWith(s, pat) THEN RemoveAll(SubSeq(s, Len(pat) + 1, Len(s)), pat)
    ELSE <<Head(s)>> \o RemoveAll(Tail(s), pat)

\* the input passed on as it is
sanitize_input_Skipped(user_input) == user_input

\* sanitize_input, prompt_templates.py:9-11
sanitize_input(user_input) ==
    RemoveAll(RemoveAll(RemoveAll(user_input, <<"{">>), <<"}">>), <<BACKTICK, BACKTICK, BACKTICK>>)

\* the wording of a template around its two fields, lines 13-18
TemplateParts(mode) ==
    CASE mode = "recommendation" ->
             [pre |-> <<"recommendation-1">>, mid |-> <<"recommendation-2", "'">>,
              post |-> <<"'", "recommendation-3">>]
      [] mode = "support" ->
             [pre |-> <<"support-1">>, mid |-> <<"support-2", "'">>,
              post |-> <<"'", "support-3">>]
      [] mode = "ecommerce" ->
             [pre |-> <<"ecommerce-1">>, mid |-> <<"ecommerce-2", "'">>,
              post |-> <<"'", "ecommerce-3">>]
      [] OTHER -> [pre |-> <<>>, mid |-> <<" ">>, post |-> <<>>]

HistoryField == <<"{", "history_context", "}">>
InputField == <<"{", "user_input", "}">>

\* templates.get(mode, templates['general']), line 19
Template(mode) ==
    LET p == TemplateParts(IF mode \in {"recommendation", "support", "ecommerce"}
                           THEN mode ELSE "general")
    IN  p.pre \o HistoryField \o p.mid \o InputField \o p.post

\* the index of the first "}" of s, 0 when there is none
ClosingBrace(s) ==
    IF \E j \in 1..Len(s) : s[j] = "}"
    THEN CHOOSE j \in 1..Len(s) : s[j] = "}" /\ \A k \in 1..(j - 1) : s[k] # "}"
    ELSE 0

\* str.format(**args): [ok, text].  "{{" and "}}" give one brace; "{name}" gives
\* args[name], which is not scanned again; ok = FALSE when format raises (a
\* brace that is alone, a name that is not an argument, an empty name, a "{"
\* inside a name).
RECURSIVE Format(_, _)
Format(s, args) ==
    IF s = <<>> THEN [ok |-> TRUE, text |-> <<>>]
    ELSE IF Head(s) \in {"{", "}"} /\ Len(s) >= 2 /\ s[2] = Head(s)
    THEN LET rest == Format(SubSeq(s, 3, Len(s)), args)
         IN  [ok |-> rest.ok, text |-> <<Head(s)>> \o rest.text]
    ELSE IF Head(s) = "}" THEN [ok |-> FALSE, text |-> <<>>]
    ELSE IF Head(s) = "{"
    THEN LET j == ClosingBrace(s)
             name == SubSeq(s, 2, j - 1)
             rest == Format(SubSeq(s, j + 1, Len(s)), args)
         IN  IF j = 0 \/ Len(name) # 1 THEN [ok |-> FALSE, text |-> <<>>]
             ELSE IF name[1] \notin DOMAIN args THEN [ok |-> FALSE, text |-> <<>>]
             ELSE [ok |-> rest.ok, text |-> args[name[1]] \o rest.text]
    ELSE LET rest == Format(Tail(s), args)
         IN  [ok |-> rest.ok, text |-> <<Head(s)>> \o rest.text]

\* get_prompt_template(mode)(user_input), line 20
get_prompt_template(mode, user_input) ==
    Format(Template(mode),
           [n \in {"history_context", "user_input"} |->
               IF n = "history_context" THEN HistoryField
               ELSE sanitize_input(user_input)])

\* " ".join(history), ai_core.py:46
RECURSIVE Join(_)
Join(history) ==
    IF history = <<>> THEN <<>>
    ELSE IF Len(history) = 1 THEN history[1]
    ELSE history[1] \o <<" ">> \o Join(Tail(history))

program_vars == <<store, redis_client, generator, response_cache, generate_cache,
                  req, nreq>>

\* a process whose model is loaded and that has received no request is about
\* to render one prompt
InitRender ==
    /\ store = [k \in Keys |-> Absent]
    /\ redis_client = None
    /\ generator = "pipeline"
    /\ response_cache = <<>>
    /\ generate_cache = <<>>
    /\ req = [s \in Slots |-> IdleReq]
    /\ nreq = 0
    /\ \E m \in RenderModes, u \in UserInputs, h \in RenderHistories :
          tpl = [IdleTpl EXCEPT !.pc = "template", !.mode = m, !.user_input = u,
                                !.history = h]
    /\ keyed = IdleKeyed

\* ai_core.py:47, get_prompt_template(mode)(p)
generate_response_template ==
    /\ tpl.pc = "template"
    /\ tpl' = [tpl EXCEPT !.pc = "format",
                          !.slot = sanitize_input(tpl.user_input),
                          !.templated = get_prompt_template(tpl.mode, tpl.user_input)]
    /\ UNCHANGED <<program_vars, keyed>>

\* ai_core.py:46-47, (...).format(history_context=history_context); when the
\* template raised there is nothing to format
generate_response_format ==
    /\ tpl.pc = "format"
    /\ tpl' = [tpl EXCEPT !.pc = "rendered",
                          !.full_prompt =
                              IF tpl.templated.ok
                              THEN Format(tpl.templated.text,
                                          [n \in {"history_context"} |-> Join(tpl.history)])
                              ELSE [ok |-> FALSE, text |-> <<>>]]
    /\ UNCHANGED <<program_vars, keyed>>

NextRender == generate_response_template \/ generate_response_format

SpecRender == InitRender /\ [][NextRender]_vars

(***************************************************************************)
(* The result keys of two requests: what get_response_from_cache           *)
(* (app.py:145) and set_response_to_cache (app.py:154) compute for each.   *)
(***************************************************************************)
\* prompts with and without the separator of the key in them
KeyPrompts == {"p1", "p1:general", "p1:general:100", "cache:p1"}
\* max_length: conint(ge=10, le=500)
KeyMaxLengths == {10, 100}
KeyRequests ==
    [prompt : KeyPrompts, mode : VALID_MODES, max_length : KeyMaxLengths,
     user_id : {None, "u1"}]

InitKey ==
    /\ store = [k \in Keys |-> Absent]
    /\ redis_client = "client"
    /\ generator = "pipeline"
    /\ response_cache = <<>>
    /\ generate_cache = <<>>
    /\ req = [s \in Slots |-> IdleReq]
    /\ nreq = 0
    /\ tpl = IdleTpl
    /\ \E a \in KeyRequests, b \in KeyRequests :
          keyed = [IdleKeyed EXCEPT !.pc = "lookup", !.reqs = <<a, b>>]

\* line 145: the key get_response_from_cache reads for the request
get_response_from_cache_key ==
    LET r == keyed.reqs[keyed.i]
    IN  /\ keyed.pc = "lookup"
        /\ keyed' = [keyed EXCEPT
                        !.pc = "write",
                        !.lookup = Append(keyed.lookup,
                                          get_redis_key(r.prompt, r.mode, r.max_length))]
        /\ UNCHANGED <<program_vars, tpl>>

\* line 154: the key set_response_to_cache writes for the request
set_response_to_cache_key ==
    LET r == keyed.reqs[keyed.i]
    IN  /\ keyed.pc = "write"
        /\ keyed' = [keyed EXCEPT
                        !.pc = IF keyed.i < Len(keyed.reqs) THEN "lookup" ELSE "done",
                        !.i = keyed.i + 1,
                        !.write = Append(keyed.write,
                                         get_redis_key(r.prompt, r.mode, r.max_length))]
        /\ UNCHANGED <<program_vars, tpl>>

NextKey == get_response_from_cache_key \/ set_response_to_cache_key

SpecKey == InitKey /\ [][NextKey]_vars

(***************************************************************************)
(* The local tier on its own: calls of generate_response_with_cache, as    *)
(* line 238 makes them, in a process whose model is loaded.  Enough        *)
(* different argument tuples are used to fill both lru caches; the tuples  *)
(* differ in max_length (10, 11, ...) or in history.                       *)
(***************************************************************************)
\* number of different max_length values called with
MaxLocalKeys == 130
\* number of calls that repeat or vary an earlier call
MaxRecalls == 1

LocalKey(l) == <<"p1", <<>>, l, "general">>
\* the same arguments with another history
OtherHistory(key) == <<key[1], <<"User: p2", "AI: o1">>, key[3], key[4]>>

CacheKeys(cache) == {cache[i].key : i \in 1..Len(cache)}

\* the max_length of the next call with a new tuple: 10, 11, ... in turn
NextFresh ==
    10 + Cardinality({req[1].inner_calls[i][3] : i \in 1..Len(req[1].inner_calls)})

\* calls so far that were not the first with a new max_length
Recalls == nreq - (NextFresh - 10)

\* the tuples a call is repeated or varied with: the least and the most
\* recently used of the outer cache, the most recent one with another history,
\* the oldest that the outer cache has dropped and the inner cache still
\* holds, and the first tuple once both caches have dropped it
RecallKeys ==
    LET outer == CacheKeys(response_cache)
        inner == CacheKeys(generate_cache)
        innerOnly == {i \in 1..Len(generate_cache) : generate_cache[i].key \notin outer}
    IN  (IF response_cache = <<>> THEN {}
         ELSE {response_cache[1].key, response_cache[Len(response_cache)].key,
               OtherHistory(response_cache[Len(response_cache)].key)})
        \cup {generate_cache[i].key : i \in {j \in innerOnly : \A m \in innerOnly : j <= m}}
        \cup (IF nreq > 0 /\ LocalKey(10) \notin outer \cup inner THEN {LocalKey(10)}
              ELSE {})

InitLocal == Init /\ redis_client = "client" /\ generator = "pipeline"

\* output = generate_response_with_cache(prompt, tuple(history), max_length, mode);
\* res: what the generator returns if it is invoked
local_call(key, res) ==
    LET g == generate_response_with_cache(key[1], key[2], key[3], key[4], res)
        outer_miss == key \notin CacheKeys(response_cache)
    IN  /\ response_cache' = g.response_cache
        /\ generate_cache' = g.generate_cache
        /\ nreq' = nreq + 1
        /\ req' = [req EXCEPT ![1] =
              [IdleReq EXCEPT
                  !.pc = "called", !.kind = "call", !.prompts = <<key[1]>>,
                  !.history = key[2], !.max_length = key[3], !.mode = key[4],
                  !.outputs = <<g.output>>, !.steps = CallSteps(g),
                  !.outer_calls = Append(req[1].outer_calls, key),
                  !.inner_calls = IF outer_miss THEN Append(req[1].inner_calls, key)
                                  ELSE req[1].inner_calls]]
        /\ UNCHANGED <<store, redis_client, generator, tpl, keyed>>

\* a call with a tuple not used before; the generator answers "o1"
local_call_new ==
    /\ NextFresh < 10 + MaxLocalKeys
    /\ local_call(LocalKey(NextFresh), "o1")

\* a call with a tuple used before, or with one that differs from it in the
\* history only; the generator, if it is invoked this time, answers "o2"
local_call_again ==
    /\ Recalls < MaxRecalls
    /\ \E key \in RecallKeys : local_call(key, "o2")

NextLocal == local_call_new \/ local_call_again

SpecLocal == InitLocal /\ [][NextLocal]_vars

(***************************************************************************)
(* Requests of both kinds of one user who builds up a history: a batch of  *)
(* three prompts persists six turns, which the next request loads.  The    *)
(* process is connected to Redis; the store answers every access.          *)
(***************************************************************************)
InitTurns == Init /\ redis_client = "client"

\* the requests are anonymous or of one user
TurnsUserIds == {"u1", None}

NextTurns ==
    \/ \E p \in Prompts, u \in TurnsUserIds, l \in MaxLengths :
          Quiet /\ generate_text(1, p, u, l, "general", TRUE)
    \/ \E expired \in BOOLEAN : generate_text_cache_check(1, FALSE, expired)
    \/ generate_text_history_load(1, FALSE, FALSE)
    \/ \E res \in BackendResults : generate_text_generate(1, res, FALSE)
    \/ generate_text_cache_write(1, FALSE)
    \/ \E ps \in SeqsUpTo(Prompts, MaxLongBatch), u \in TurnsUserIds, l \in MaxLengths :
          Quiet /\ generate_batch_text(1, ps, u, l, "general", TRUE)
    \/ generate_batch_text_history_load(1, FALSE, FALSE)
    \/ \E expired \in BOOLEAN : generate_batch_text_cache_check(1, FALSE, expired)
    \/ \E res \in BackendResults : generate_batch_text_generate(1, res, FALSE)
    \/ generate_batch_text_history_update(1, FALSE)

SpecTurns == InitTurns /\ [][NextTurns]_vars

(***************************************************************************)
(* Properties.                                                             *)
(***************************************************************************)
Fallbacks == {MODEL_UNAVAILABLE, GENERATION_ERROR}
SingleTurns(r) == <<UserTurn(r.prompts[1]), AiTurn(r.outputs[1])>>
BatchTurns(r) == MapSeq(r.prompts, "User: ") \o MapSeq(r.outputs, "AI: ")
Persists(r) == r.user_id # None /\ redis_client # None

\* C1: after a request that missed the shared cache, the history persisted for
\* its user is the last 6 entries of (history persisted before, then the turns
\* of the request).  Stated for the requests during which no access to the
\* store raised: a single-prompt request right after its history update, a
\* batch request none of whose lookups hit once it has responded.
C1_PersistedIsTail ==
    \A s \in Slots :
        LET r == req[s]
        IN  /\ (r.pc = "cache_write" /\ Persists(r) /\ ~r.store_fault)
                => store[r.user_id].doc =
                       PyList(LastN(r.history \o SingleTurns(r), HISTORY_CAP))
            /\ (/\ r.kind = "batch" /\ r.pc = "done" /\ r.response.status = 200
                /\ Persists(r) /\ ~r.store_fault /\ ~r.hit)
                => store[r.user_id].doc =
                       PyList(LastN(r.history \o BatchTurns(r), HISTORY_CAP))

\* C2: the history persisted under any user id never has more than 6 entries.
C2_HistoryAtMostCap ==
    \A u \in UserIds :
        store[u].doc.t = "list" => Len(store[u].doc.list) <= HISTORY_CAP

\* C2 witness: a request whose history with its new turns had more than 6
\* entries has persisted exactly 6.
C2_Witness ==
    \E s \in Slots :
        /\ req[s].pc = "done" /\ req[s].response.status = 200 /\ Persists(req[s])
        /\ Len(req[s].new_history) > HISTORY_CAP
        /\ store[req[s].user_id].doc.t = "list"
        /\ Len(store[req[s].user_id].doc.list) = HISTORY_CAP

\* the step in which the lookup of single-prompt request s finds an entry
HitStep(s) == req[s].kind = "single" /\ ~req[s].hit /\ req'[s].hit

\* C3: a single-prompt request whose lookup finds an entry of the shared cache
\* responds in that very step: it calls neither generate_response_with_cache
\* nor the generator, and the store (every history, every entry) and both
\* local caches are as they were.
C3_HitHasNoEffect ==
    [][\A s \in Slots :
          HitStep(s) =>
              /\ req'[s].pc = "done"
              /\ req'[s].steps = <<"CACHE_CHECK", "RESPOND">>
              /\ store' = store
              /\ response_cache' = response_cache
              /\ generate_cache' = generate_cache]_vars

\* C3 witness: a user with a persisted history got a hit.
C3_Witness ==
    \E s \in Slots :
        /\ req[s].kind = "single" /\ req[s].hit /\ req[s].pc = "done"
        /\ Persists(req[s])
        /\ store[req[s].user_id].doc.t = "list"

\* C4: on a hit the response is {input: the prompt, output: the entry's output,
\* history: the entry's history}, whoever asks.
C4_HitResponseIsEntry ==
    [][\A s \in Slots :
          HitStep(s) =>
              LET r == req[s]
                  e == store[get_redis_key(r.prompts[1], r.mode, r.max_length)].doc
              IN  /\ e.t = "dict"
                  /\ req'[s].response =
                         [status |-> 200, inputs |-> r.prompts,
                          outputs |-> <<e.output>>, history |-> e.history]]_vars

\* C4 witness: a hit whose response carries a history that is not the one
\* persisted for the caller.
C4_Witness ==
    \E s \in Slots :
        /\ req[s].kind = "single" /\ req[s].hit /\ req[s].pc = "done"
        /\ req[s].user_id # None
        /\ req[s].response.history # <<>>
        /\ store[req[s].user_id].doc # PyList(req[s].response.history)

\* C5: no entry of the shared cache and no entry of the local caches holds one
\* of the two fallback strings as its output.
C5_NoFallbackCached ==
    /\ \A k \in Keys : store[k].doc.t = "dict" => store[k].doc.output \notin Fallbacks
    /\ \A i \in 1..Len(response_cache) : response_cache[i].val \notin Fallbacks
    /\ \A i \in 1..Len(generate_cache) : generate_cache[i].val \notin Fallbacks

\* C6: a single-prompt request that passes the API-key and mode checks and
\* follows a successful single-prompt request with the same prompt, mode and
\* max_length, no key having expired in between, succeeds and returns the
\* same output, whether or not the store is available.
C6_SameOutput ==
    \A s \in Slots :
        (/\ req[s].kind = "single" /\ req[s].pc = "done"
         /\ req[s].response.status \notin {400, 401} /\ req[s].prev_output # None)
            => /\ req[s].response.status = 200
               /\ req[s].response.outputs[1] = req[s].prev_output

\* C6, for the requests that are answered: when the second request succeeds
\* as well, its output is the output of the first.
C6_SameOutputWhenAnswered ==
    \A s \in Slots :
        (/\ req[s].kind = "single" /\ req[s].pc = "done"
         /\ req[s].response.status = 200 /\ req[s].prev_output # None)
            => req[s].response.outputs[1] = req[s].prev_output

\* C6, answered case reached: the second of two such requests, made for a
\* user, served from the shared cache while the generator is able to produce
\* other texts.
C6_Witness ==
    \E s \in Slots :
        /\ req[s].kind = "single" /\ req[s].pc = "done"
        /\ req[s].response.status = 200 /\ req[s].prev_output # None
        /\ req[s].user_id # None /\ req[s].hit /\ generator # None

\* C7: when the store fails during the lookup of a single-prompt request, the
\* lookup gives "absent" and the request goes on with the miss path.
C7_LookupNeverRaises ==
    \A s \in Slots :
        LET r == req[s]
        IN  (/\ r.kind = "single" /\ r.store_fault
             /\ Len(r.steps) >= 2 /\ r.steps[1] = "CACHE_CHECK")
                => r.steps[2] = "HISTORY_LOAD"

\* C8: a request during which an access to the store raised still ends with a
\* success response.
C8_StoreFaultNeverFails ==
    \A s \in Slots :
        (req[s].pc = "done" /\ req[s].store_fault) => req[s].response.status = 200

\* C9: loading the history never ends a request with an error response.
C9_HistoryLoadNeverFails ==
    \A s \in Slots :
        \A i \in 1..Len(req[s].steps) :
            (req[s].steps[i] = "HISTORY_LOAD" /\ i < Len(req[s].steps))
                => req[s].steps[i + 1] # "RESPOND_ERROR"

\* C10: a single-prompt request whose generation found the model missing or
\* raising ends with a success response whose output is a fallback string.
C10_BackendFaultStillSucceeds ==
    \A s \in Slots :
        (req[s].kind = "single" /\ req[s].pc = "done" /\ req[s].backend_fault)
            => /\ req[s].response.status = 200
               /\ req[s].response.outputs[1] \in Fallbacks

\* the four modes the interface recognizes
RecognizedModes == {"general", "recommendation", "support", "ecommerce"}

\* the step in which slot s receives a request that carries a valid API key
\* and a mode that is not recognized
InvalidModeStep(s) ==
    /\ req[s].pc \in {"idle", "done"} /\ req'[s] # req[s]
    /\ req'[s].mode \notin RecognizedModes
    /\ req'[s].response.status # 401

\* C11: a single-prompt or batch request with a mode that is not recognized is
\* answered at once with status 400 and an error that names the four valid
\* modes: the request takes no other step (no lookup, no history access, no
\* call of the local tier), and the store and both local caches are unchanged.
C11_InvalidModeRejected ==
    [][\A s \in Slots :
          InvalidModeStep(s) =>
              /\ req'[s].pc = "done"
              /\ req'[s].response.status = 400
              /\ RecognizedModes \subseteq req'[s].response.error.modes
              /\ req'[s].steps = <<"RESPOND_ERROR">>
              /\ store' = store
              /\ response_cache' = response_cache
              /\ generate_cache' = generate_cache]_vars

\* C11 witness: a batch request with an unrecognized mode was rejected while
\* the shared cache and the local tier held entries.
C11_Witness ==
    \E s \in Slots :
        /\ req[s].kind = "batch" /\ req[s].prompts # <<>>
        /\ req[s].mode \notin RecognizedModes
        /\ req[s].pc = "done" /\ req[s].response.status = 400
        /\ \E k \in Keys : store[k].doc.t = "dict"
        /\ response_cache # <<>>

\* s has neither a brace nor three backticks in a row
Harmless(s) ==
    /\ \A i \in 1..Len(s) : s[i] \notin {"{", "}"}
    /\ \A i \in 1..(Len(s) - 2) : ~(s[i] = BACKTICK /\ s[i + 1] = BACKTICK /\ s[i + 2] = BACKTICK)

\* the tokens of s that are neither a brace nor a backtick, in order
RECURSIVE PlainText(_)
PlainText(s) ==
    IF s = <<>> THEN <<>>
    ELSE IF Head(s) \in {"{", "}", BACKTICK} THEN PlainText(Tail(s))
    ELSE <<Head(s)>> \o PlainText(Tail(s))

\* C12: for every mode, recognized or not, and every user input: what fills the
\* input slot of the template is the input without its braces and its triple
\* backticks (no brace, no three backticks in a row, every other token kept in
\* order); the template comes back with the history field still to be filled;
\* and the later format puts the history context in that field only, so that the
\* rendered prompt is the template's wording around the history context and the
\* cleaned input.
C12_InputSanitized ==
    LET p == TemplateParts(IF tpl.mode \in RecognizedModes THEN tpl.mode ELSE "general")
    IN  /\ tpl.pc \in {"format", "rendered"} =>
              /\ Harmless(tpl.slot)
              /\ PlainText(tpl.slot) = PlainText(tpl.user_input)
              /\ tpl.templated =
                     [ok |-> TRUE,
                      text |-> p.pre \o HistoryField \o p.mid \o tpl.slot \o p.post]
        /\ tpl.pc = "rendered" =>
              tpl.full_prompt =
                  [ok |-> TRUE,
                   text |-> p.pre \o Join(tpl.history) \o p.mid \o tpl.slot \o p.post]

\* C12 witness: an input that spells the history field and carries backticks
\* that become three in a row once the braces are gone was rendered, for a mode
\* that is not recognized and with a history.
C12_Witness ==
    /\ tpl.pc = "rendered"
    /\ tpl.mode \notin RecognizedModes
    /\ tpl.history # <<>>
    /\ \/ tpl.user_input = <<"{", "history_context", "}", "a">>
       \/ tpl.user_input = <<BACKTICK, "{", BACKTICK, BACKTICK>>

\* the history a request finds persisted for its user in store st
Persisted(st, r) ==
    IF Persists(r) /\ st[r.user_id].doc.t = "list"
    THEN LastN(st[r.user_id].doc.list, HISTORY_CAP)
    ELSE <<>>

\* batch request s is past its history load and takes a step
BatchLoopStep(s) ==
    /\ req[s].kind = "batch"
    /\ req[s].pc \in {"b_cache_check", "b_generate", "b_history_update"}
    /\ req'[s] # req[s]

\* C13: a batch request loads the history once, as its first step, and what it
\* loads is what is persisted for the user at that time; the loop never loads
\* or changes it, and every prompt that misses the shared cache is generated by
\* a local call whose history argument is that same history.
C13_BatchSharesSnapshot ==
    [][\A s \in Slots :
          /\ (/\ req[s].pc = "b_history_load" /\ req'[s] # req[s]
              /\ req'[s].pc # "done" /\ ~req'[s].store_fault)
                 => /\ req'[s].steps = <<"HISTORY_LOAD">>
                    /\ req'[s].history = Persisted(store', req[s])
          /\ BatchLoopStep(s) =>
                 /\ req'[s].history = req[s].history
                 /\ \A i \in 2..Len(req'[s].steps) : req'[s].steps[i] # "HISTORY_LOAD"
          /\ (BatchLoopStep(s) /\ req[s].pc = "b_generate") =>
                 /\ response_cache' # <<>>
                 /\ response_cache'[Len(response_cache')].key =
                        <<req[s].prompts[req[s].i], req[s].history,
                          req[s].max_length, req[s].mode>>]_vars

\* C13 witness: a batch of three prompts for a user with a persisted history
\* has responded, none of its prompts having been served by the shared cache.
C13_Witness ==
    \E s \in Slots :
        /\ req[s].kind = "batch" /\ req[s].pc = "done"
        /\ req[s].response.status = 200
        /\ Len(req[s].prompts) = 3 /\ req[s].history # <<>> /\ ~req[s].hit
        /\ generator # None

\* C14: when a batch request has responded, the history of the response is the
\* last 6 entries of (the history loaded, then "User: " + each prompt, then
\* "AI: " + each output), and, for a user and a store that took the write, so
\* is the history persisted for that user.
C14_BatchHistoryIsTail ==
    \A s \in Slots :
        LET r == req[s]
            tail == LastN(r.history \o BatchTurns(r), HISTORY_CAP)
        IN  (r.kind = "batch" /\ r.pc = "done" /\ r.response.status = 200)
                => /\ r.response.history = tail
                   /\ Persists(r) => store[r.user_id].doc = PyList(tail)

\* C15: a single-prompt request that missed the shared cache, no access to the
\* store raising.  With a user id and a store: the history it loads is the one
\* persisted for the user; after the generation a history is persisted for the
\* user (without time to live; the whole new history when it has at most 6
\* entries); the response carries the loaded history followed by
\* "User: " + prompt and "AI: " + output, in that order.  Without a user id (or
\* without a store): the generation leaves the store as it is and the response
\* history is empty.
C15_MissResponseHistory ==
    [][\A s \in Slots :
          LET r == req[s]
              r2 == req'[s]
          IN  (r.kind = "single" /\ r2 # r /\ ~r2.store_fault) =>
                /\ (r.pc = "history_load" /\ Persists(r))
                       => r2.pc = "generate" /\ r2.history = Persisted(store', r)
                /\ (r.pc = "history_load" /\ ~Persists(r))
                       => r2.pc = "generate" /\ r2.history = <<>>
                /\ (r.pc = "generate" /\ Persists(r))
                       => /\ r2.pc = "cache_write"
                          /\ r2.new_history =
                                 r.history \o <<"User: " \o r.prompts[1],
                                                "AI: " \o r2.outputs[1]>>
                          /\ store'[r.user_id].doc.t = "list"
                          /\ ~store'[r.user_id].ttl
                          /\ Len(r2.new_history) <= HISTORY_CAP
                                 => store'[r.user_id].doc.list = r2.new_history
                /\ (r.pc = "generate" /\ ~Persists(r))
                       => r2.pc = "cache_write" /\ r2.new_history = <<>> /\ store' = store
                /\ r.pc = "cache_write"
                       => /\ r2.pc = "done"
                          /\ r2.response =
                                 [status |-> 200, inputs |-> r.prompts,
                                  outputs |-> r.outputs, history |-> r.new_history]]_vars

\* C15, when what is stored under the user id is a history or nothing: a
\* single-prompt request that missed the shared cache, no access to the
\* store raising, does all that C15 says.
C15_MissResponseHistoryWhenLoaded ==
    [][\A s \in Slots :
          LET r == req[s]
              r2 == req'[s]
          IN  (r.kind = "single" /\ r2 # r /\ ~r2.store_fault) =>
                /\ (r.pc = "history_load" /\ Persists(r)
                    /\ store'[r.user_id].doc.t # "dict")
                       => r2.pc = "generate" /\ r2.history = Persisted(store', r)
                /\ (r.pc = "history_load" /\ ~Persists(r))
                       => r2.pc = "generate" /\ r2.history = <<>>
                /\ (r.pc = "generate" /\ Persists(r))
                       => /\ r2.pc = "cache_write"
                          /\ r2.new_history =
                                 r.history \o <<"User: " \o r.prompts[1],
                                                "AI: " \o r2.outputs[1]>>
                          /\ store'[r.user_id].doc.t = "list"
                          /\ ~store'[r.user_id].ttl
                          /\ Len(r2.new_history) <= HISTORY_CAP
                                 => store'[r.user_id].doc.list = r2.new_history
                /\ (r.pc = "generate" /\ ~Persists(r))
                       => r2.pc = "cache_write" /\ r2.new_history = <<>> /\ store' = store
                /\ r.pc = "cache_write"
                       => /\ r2.pc = "done"
                          /\ r2.response =
                                 [status |-> 200, inputs |-> r.prompts,
                                  outputs |-> r.outputs, history |-> r.new_history]]_vars

\* C15, that case reached: a user with a persisted history of four entries got the
\* response of a miss, with six entries.
C15_Witness ==
    \E s \in Slots :
        /\ req[s].kind = "single" /\ req[s].pc = "done" /\ ~req[s].hit
        /\ req[s].response.status = 200 /\ Persists(req[s]) /\ ~req[s].store_fault
        /\ Len(req[s].history) = 4
        /\ req[s].response.history =
               req[s].history \o <<"User: " \o req[s].prompts[1],
                                   "AI: " \o req[s].response.outputs[1]>>

\* (prompt, mode, max_length) of a request
Triple(r) == <<r.prompt, r.mode, r.max_length>>

\* C16: the key a request looks up and the key it writes back are both
\* "cache:" + prompt + ":" + mode + ":" + max_length; two requests with the same
\* (prompt, mode, max_length) have the same key whatever their user ids, and
\* two requests with different valid triples have different keys.
C16_KeyOfTriple ==
    /\ \A i \in 1..Len(keyed.lookup) :
          keyed.lookup[i] =
              "cache:" \o keyed.reqs[i].prompt \o ":" \o keyed.reqs[i].mode
                       \o ":" \o ToString(keyed.reqs[i].max_length)
    /\ \A i \in 1..Len(keyed.write) : keyed.write[i] = keyed.lookup[i]
    /\ keyed.pc = "done" =>
          (Triple(keyed.reqs[1]) = Triple(keyed.reqs[2]))
              <=> (keyed.lookup[1] = keyed.lookup[2])

\* C16 witness: the keys of two requests are computed, one for the prompt
\* "p1:general" in mode support, one for the prompt "p1" in mode general, by
\* different users.
C16_Witness ==
    /\ keyed.pc = "done"
    /\ keyed.reqs[1].prompt = "p1:general" /\ keyed.reqs[1].mode = "support"
    /\ keyed.reqs[2].prompt = "p1" /\ keyed.reqs[2].mode = "general"
    /\ keyed.reqs[1].user_id # keyed.reqs[2].user_id

WroteHistory(s) ==
    /\ req[s].kind = "single" /\ req[s].pc \in {"cache_write", "done"}
    /\ req[s].steps # <<>> /\ req[s].steps[Len(req[s].steps)] # "RESPOND_ERROR"
    /\ ~req[s].hit /\ ~req[s].store_fault
    /\ Persists(req[s])

\* C18: nothing orders the history read and the history write of two requests
\* of one user: when both have loaded the same history and both have written,
\* what is persisted is the new history of one of them alone (the later
\* writer), never the two sets of turns together.
C18_LastWriteWins ==
    \A s1, s2 \in Slots :
        (/\ s1 # s2 /\ WroteHistory(s1) /\ WroteHistory(s2)
         /\ req[s1].user_id = req[s2].user_id
         /\ req[s1].history = req[s2].history)
            => store[req[s1].user_id].doc \in
                   {PyList(Truncate(req[s1].new_history)),
                    PyList(Truncate(req[s2].new_history))}

\* C18 witness, the lost update: two requests of one user with different
\* prompts have both responded with success after loading the same (empty)
\* history, and the persisted history has the turns of one and not the
\* "User: " turn of the other.
C18_Witness ==
    \E s1, s2 \in Slots :
        /\ s1 # s2 /\ WroteHistory(s1) /\ WroteHistory(s2)
        /\ req[s1].pc = "done" /\ req[s2].pc = "done"
        /\ req[s1].user_id = req[s2].user_id
        /\ req[s1].history = <<>> /\ req[s2].history = <<>>
        /\ req[s1].prompts # req[s2].prompts
        /\ store[req[s1].user_id].doc = PyList(req[s2].new_history)
        /\ \A i \in 1..Len(store[req[s1].user_id].doc.list) :
              store[req[s1].user_id].doc.list[i] # UserTurn(req[s1].prompts[1])

\* s is the beginning of q
IsPrefix(s, q) == Len(s) <= Len(q) /\ SubSeq(q, 1, Len(s)) = s

\* the complete runs of the per-request state machine: a hit, and a miss whose
\* generation is a call of the local tier that renders the template and
\* invokes the backend only as far as it has to
CompleteRuns ==
    {<<"CACHE_CHECK", "RESPOND">>} \cup
    {<<"CACHE_CHECK", "HISTORY_LOAD", "LOCAL_CALL">> \o g
         \o <<"HISTORY_UPDATE", "CACHE_WRITE", "RESPOND">> :
     g \in {<<>>, <<"TEMPLATE_RENDER">>, <<"TEMPLATE_RENDER", "BACKEND_INVOKE">>}}

\* steps is the beginning of a complete run, or such a beginning (short of
\* RESPOND) that went to RESPOND_ERROR
FollowsMachine(steps) ==
    \E run \in CompleteRuns :
        \/ IsPrefix(steps, run)
        \/ /\ steps # <<>> /\ steps[Len(steps)] = "RESPOND_ERROR"
           /\ Len(steps) <= Len(run)
           /\ IsPrefix(SubSeq(steps, 1, Len(steps) - 1), run)

\* after every step, a single-prompt request has followed the state
\* machine: the shared-cache check first; on a hit the response and nothing
\* else; on a miss history load, generation, history update, shared-cache
\* write and response, in that order and once each; from any point possibly the
\* error response instead.  It is over exactly when its last step is RESPOND
\* or RESPOND_ERROR.  The steps are what they are called: a history is written
\* under the user id only by the history update, a result entry only by the
\* shared-cache write, which puts {input, output, history} under the key of the
\* request.
StepsFollowMachine ==
    [][\A s \in Slots :
          LET r == req[s]
              r2 == req'[s]
              n == Len(r2.steps)
              k == get_redis_key(r2.prompts[1], r2.mode, r2.max_length)
          IN  (r2.kind = "single" /\ r2 # r) =>
                /\ FollowsMachine(r2.steps)
                /\ r2.pc = "done" <=>
                       (n > 0 /\ r2.steps[n] \in {"RESPOND", "RESPOND_ERROR"})
                /\ r2.hit => r2.steps = <<"CACHE_CHECK", "RESPOND">>
                /\ (n > 1 /\ r2.steps[n - 1] = "CACHE_WRITE" /\ r2.steps[n] = "RESPOND"
                    /\ redis_client # None)
                       => store'[k] = [doc |-> PyDict(r2.prompts[1], r2.outputs[1],
                                                      r2.new_history),
                                       ttl |-> TRUE]
                /\ (\E key \in Keys : store'[key] # store[key] /\ store'[key].doc.t = "dict")
                       => (n > 1 /\ r2.steps[n - 1] = "CACHE_WRITE")
                /\ (\E key \in Keys : store'[key] # store[key] /\ store'[key].doc.t = "list")
                       => (n > 0 /\ r2.steps[n] = "HISTORY_UPDATE")]_vars

\* a single-prompt request that is under way comes to its end
RequestEnds ==
    \A s \in Slots :
        (req[s].kind = "single" /\ req[s].pc \notin {"idle", "done"})
            ~> (req[s].pc = "done")

\* C19: every single-prompt request follows the per-request state machine
\* step by step (StepsFollowMachine: the order of the steps, none repeated, no
\* shared-cache write before the history update) and ends, in exactly one of
\* RESPOND or RESPOND_ERROR.
C19_FollowsStateMachine == StepsFollowMachine /\ RequestEnds

\* C19 witness: a request of a user went through the whole miss path, the
\* template rendered and the backend invoked.
C19_Witness ==
    \E s \in Slots :
        /\ req[s].kind = "single" /\ req[s].pc = "done" /\ req[s].user_id # None
        /\ req[s].steps = <<"CACHE_CHECK", "HISTORY_LOAD", "LOCAL_CALL",
                            "TEMPLATE_RENDER", "BACKEND_INVOKE", "HISTORY_UPDATE",
                            "CACHE_WRITE", "RESPOND">>

\* the value a cache holds for a key
ValueOf(cache, key) == cache[CHOOSE i \in 1..Len(cache) : cache[i].key = key].val

\* the place of the last call with key in a log of calls
LastUse(log, key) ==
    LET uses == {i \in 1..Len(log) : log[i] = key}
    IN  CHOOSE i \in uses : \A j \in uses : j <= i

\* what a call leaves of a cache of the given capacity, log being the calls
\* made of its function before: no more entries than the capacity, one entry
\* per key, every entry kept as it was except at most one, dropped when the
\* cache was full, which is the one whose last call is the oldest
KeepsRecent(before, after, log, capacity) ==
    LET dropped == {before[i] : i \in 1..Len(before)} \ {after[i] : i \in 1..Len(after)}
    IN  /\ Len(after) <= capacity
        /\ Cardinality(CacheKeys(after)) = Len(after)
        /\ \A e \in dropped :
              /\ Len(before) = capacity /\ dropped = {e}
              /\ e.key \notin CacheKeys(after)
              /\ CacheKeys(before) \ {e.key} \subseteq
                     {log[j] : j \in (LastUse(log, e.key) + 1)..Len(log)}

\* C20: a call of the local tier with (prompt, history, max_length, mode).
\* When the outer cache holds the tuple the call returns the stored value and
\* nothing runs; when only the inner cache holds it the call returns that value
\* and the generator is not invoked; when neither holds it (as for a tuple that
\* differs from a resident one in its history only) the template is rendered
\* and the generator invoked.  After the call both caches hold the tuple with
\* the value returned, the outer cache has at most 100 entries and the inner at
\* most 128, and an entry that was dropped is the least recently used one of
\* its cache.
C20_LocalTierIsLru ==
    [][(req'[1].kind = "call" /\ nreq' = nreq + 1) =>
          LET c == req'[1]
              key == <<c.prompts[1], c.history, c.max_length, c.mode>>
              outer == key \in CacheKeys(response_cache)
              inner == key \in CacheKeys(generate_cache)
          IN  /\ outer => /\ c.outputs[1] = ValueOf(response_cache, key)
                          /\ c.steps = <<"LOCAL_CALL">>
                          /\ generate_cache' = generate_cache
              /\ (~outer /\ inner)
                     => /\ c.outputs[1] = ValueOf(generate_cache, key)
                        /\ c.steps = <<"LOCAL_CALL">>
              /\ (~outer /\ ~inner)
                     => c.steps = <<"LOCAL_CALL", "TEMPLATE_RENDER", "BACKEND_INVOKE">>
              /\ key \in CacheKeys(response_cache')
              /\ ValueOf(response_cache', key) = c.outputs[1]
              /\ ~outer => /\ key \in CacheKeys(generate_cache')
                           /\ ValueOf(generate_cache', key) = c.outputs[1]
              /\ KeepsRecent(response_cache, response_cache', req[1].outer_calls,
                             RESPONSE_CACHE_MAXSIZE)
              /\ KeepsRecent(generate_cache, generate_cache', req[1].inner_calls,
                             GENERATE_CACHE_MAXSIZE)]_vars

\* C20 witness: the outer cache is full, its oldest entry has been called again
\* (and served without the generator), and the next new tuple has made the
\* cache drop the second oldest entry instead.
C20_Witness ==
    /\ req[1].kind = "call"
    /\ Len(response_cache) = RESPONSE_CACHE_MAXSIZE
    /\ LocalKey(10) \in CacheKeys(response_cache)
    /\ LocalKey(11) \notin CacheKeys(response_cache)
    /\ LocalKey(11) \in CacheKeys(generate_cache)
    /\ ValueOf(response_cache, LocalKey(10)) = "o1"

\* the turns of a history
Turns(h) == {h[i] : i \in 1..Len(h)}

\* the turns that requests of the user of r have appended, as far as the state
\* tells: the user's persisted history, and the two turns of r itself when r
\* went past the lookup (a hit returns before line 241 and appends nothing).
\* A request without user_id appends nothing.
OwnTurns(r) ==
    IF r.user_id = None THEN {}
    ELSE (IF store[r.user_id].doc.t = "list" THEN Turns(store[r.user_id].doc.list)
          ELSE {})
         \cup (IF r.hit THEN {}
               ELSE {UserTurn(r.prompts[1]), AiTurn(r.response.outputs[1])})

\* C21: the history of a success response to a single-prompt request holds
\* only turns appended by requests of the same user_id; for a request without
\* user_id it holds no turn at all.
C21_NoForeignTurns ==
    \A s \in Slots :
        (req[s].pc = "done" /\ req[s].kind = "single" /\ req[s].response.status = 200)
            => Turns(req[s].response.history) \subseteq OwnTurns(req[s])

\* the keys of the result cache
ResultKeys ==
    {get_redis_key(p, m, l) : p \in Prompts, m \in ReqModes \cap VALID_MODES,
                              l \in MaxLengths}

\* the result key a request at its lookup asks for
LookupKey(r) ==
    get_redis_key(IF r.kind = "single" THEN r.prompts[1] ELSE r.prompts[r.i],
                  r.mode, r.max_length)

\* C22: histories and cached results live apart in the store.  The step of a
\* handler that writes the history leaves every result key as it was; the step
\* that writes a result leaves the key of every user_id as it was; a lookup
\* of the result cache never finds a history (a list) and a load of the history
\* never finds a cached result (a dict).
C22_KeySpacesSeparate ==
    [][\A s \in Slots :
          req'[s] # req[s] =>
              LET r == req[s]
              IN  /\ r.pc \in {"generate", "b_history_update"}
                         => \A k \in ResultKeys : store'[k] = store[k]
                  /\ r.pc \in {"cache_write", "b_generate"}
                         => \A u \in UserIds : store'[u] = store[u]
                  /\ r.pc \in {"cache_check", "b_cache_check"}
                         => store'[LookupKey(r)].doc.t # "list"
                  /\ (r.pc \in {"history_load", "b_history_load"} /\ Persists(r))
                         => store'[r.user_id].doc.t # "dict"]_vars

\* C23: the history of every success response and of every entry of the result
\* cache has at most 6 entries, and the history of the response to a
\* single-prompt miss of a user is the history persisted for that user.
C23_ResponseHistoryBounded ==
    /\ \A s \in Slots :
          (req[s].pc = "done" /\ req[s].response.status = 200)
              => Len(req[s].response.history) <= HISTORY_CAP
    /\ \A k \in ResultKeys :
          store[k].doc.t = "dict" => Len(store[k].doc.history) <= HISTORY_CAP
    /\ \A s \in Slots :
          (/\ req[s].pc = "done" /\ req[s].response.status = 200
           /\ req[s].kind = "single" /\ ~req[s].hit /\ Persists(req[s]))
              => /\ store[req[s].user_id].doc.t = "list"
                 /\ req[s].response.history = store[req[s].user_id].doc.list

====
